---- MODULE Spec2Model ----
(***************************************************************************)
(* Model of backend/server.js of the real-time visitor tracker: the        *)
(* in-memory registry (activeConnections, totalConnections), the /events   *)
(* handler, its close listener, its heartbeat timer and broadcastCount.    *)
(* Node runs every handler to completion on one thread, so each handler    *)
(* is one action.                                                          *)
(***************************************************************************)
EXTENDS Integers, Sequences, FiniteSets, TLC

\* Number of /events requests (response objects) the model considers.
MaxHandles == 3
\* Number of /events requests in the specifications that add heartbeat firings
\* or repeated close events to the registry events.
FewHandles == 2
\* Number of heartbeat timer firings the model considers, all timers together.
MaxTicks == 2
\* Number of times the close event of one request is delivered in SpecDoubleClose.
MaxCloseCalls == 2
\* Number of heartbeat intervals that elapse in SpecClock.
MaxClock == 3
\* Number of browser tabs that load the page, and of browsers they are in.
MaxTabs == 2
\* Number of times the server process is stopped and started again.
MaxRestarts == 1
\* Message events dispatched to one page.
MaxMessages == 3

\* req.cookies.visitorId of a request that carries no visitorId cookie.
NoCookie == 0
\* req.cookies.visitorId of a request whose visitorId cookie is the empty string.
EmptyCookie == -1

\* The response objects, named in the order the requests arrive.
Handles == 1..MaxHandles

\* The browser tabs that show the page, and the browsers they are opened in.
Tabs == 1..MaxTabs

Browsers == 1..MaxTabs

\* No response object: the streamOf of a tab that has no connection.
NoStream == 0

\* What the page reads of a field that the parsed data does not have.
Undefined == -1

\* useState(""): no last update is shown.
NoUpdate == [shown |-> FALSE]

VARIABLES
    activeConnections,  \* Map<sessionId, Set<res>>, in insertion order
    totalConnections,   \* the counter
    minted,             \* how many ids uuidv4 has minted (the cookies issued)
    sessionOf,          \* the sessionId each /events handler closed over
    reqCookie,          \* per res: req.cookies.visitorId of its request
    transport,          \* per res: "none", "open", "gone" (close pending), "closed"
    timer,              \* per res: heartbeatInterval is set
    listener,           \* per res: the close listener is installed
    written,            \* per res: the frames res.write was called with
    running,            \* the process has not died of an uncaught exception
    ticks,              \* heartbeat firings so far
    events,             \* history: Connect and Close handlers run so far
    snapshots,          \* history: the registry counts after each of them
    closeCalls,         \* history, per res: runs of its close listener
    decrements,         \* history, per res: what those runs took off the counter
    health,             \* the bodies res.json sent for GET /health, in order
    jar,                \* per browser: the visitorId cookie in its cookie jar
    requests,           \* the cookies of the first browser's requests not yet
                        \* handled
    setCookie,          \* per res: the visitorId cookie res.cookie put in the
                        \* response headers, until the browser has stored it
    clock,              \* heartbeat intervals (15000 ms) elapsed so far
    due,                \* the res whose interval callback is due and has not run
    lastTick,           \* history: who was registered when the last interval
                        \* elapsed, and how many heartbeats each res had then
    tabBrowser,         \* per tab: the browser it is in, 0 before the page loads
    readyState,         \* per tab: the state of its EventSource
    connectionStatus,   \* per tab: the connectionStatus state of the page
    request,            \* per tab: the cookie of the request its EventSource
                        \* has sent and that is not answered yet, if any
    streamOf,           \* per tab: the res its EventSource is connected to
    stops,              \* how many times the server process was stopped
    visitorCount,       \* per tab: the visitorCount state of the page
    lastUpdate,         \* per tab: the lastUpdate state of the page
    cursor,             \* per tab: how many frames of its stream the
                        \* EventSource has read
    received            \* history, per tab: the data of the message events
                        \* dispatched to the page

vars == <<activeConnections, totalConnections, minted, sessionOf, reqCookie, transport,
          timer, listener, written, running, ticks, events, snapshots,
          closeCalls, decrements, health, jar, requests, setCookie,
          clock, due, lastTick, tabBrowser, readyState, connectionStatus,
          request, streamOf, stops, visitorCount, lastUpdate, cursor,
          received>>

\* The browser whose tabs SpecBrowser follows.
browser == <<jar, requests>>

\* The passing of time as SpecClock follows it.
timing == <<clock, due, lastTick>>

\* The pages and their EventSources, and the restarts they live through.
client == <<tabBrowser, readyState, connectionStatus, request, streamOf,
            stops, visitorCount, lastUpdate, cursor, received>>

\* What the page shows of the messages, and what it was sent.
display == <<visitorCount, lastUpdate, cursor, received>>

----------------------------------------------------------------------------
\* The Map and its Sets, kept in insertion order as JavaScript keeps them.

has(ac, sid) == \E i \in 1..Len(ac) : ac[i].sessionId = sid

indexOf(ac, sid) == CHOOSE i \in 1..Len(ac) : ac[i].sessionId = sid

get(ac, sid) == ac[indexOf(ac, sid)].responses

SetAdd(s, x) == IF \E i \in 1..Len(s) : s[i] = x THEN s ELSE Append(s, x)

SetDelete(s, x) == SelectSeq(s, LAMBDA y : y # x)

MapDelete(ac, sid) == SelectSeq(ac, LAMBDA e : e.sessionId # sid)

Keys(ac) == {ac[i].sessionId : i \in 1..Len(ac)}

Range(s) == {s[i] : i \in 1..Len(s)}

HandlesOf(ac, sid) == IF has(ac, sid) THEN Range(get(ac, sid)) ELSE {}

Registered(ac) == UNION {Range(ac[i].responses) : i \in 1..Len(ac)}

RECURSIVE SumSizes(_)
SumSizes(ac) ==
    IF ac = <<>> THEN 0 ELSE Len(Head(ac).responses) + SumSizes(Tail(ac))

\* The order activeConnections.forEach / responses.forEach visit the handles.
RECURSIVE Flatten(_)
Flatten(ac) ==
    IF ac = <<>> THEN <<>> ELSE Head(ac).responses \o Flatten(Tail(ac))

\* uniqueVisitors taken to be the number of connections.
uniqueVisitorsCountsHandles(ac) == SumSizes(ac)

\* activeConnections.size
uniqueVisitors(ac) == Len(ac)

----------------------------------------------------------------------------
\* getSessionId without the test of line 26: every request gets a new id.
getSessionIdIgnoresCookie(cookie, n) ==
    [sessionId |-> n + 1, minted |-> n + 1, setCookie |-> n + 1]

\* getSessionId: the cookie when the request carries one, a fresh uuid if not;
\* setCookie is what res.cookie is called with, NoCookie when it is not called.
\* `!sessionId` is true of a missing cookie and of an empty one.
getSessionId(cookie, n) ==
    IF cookie \in {NoCookie, EmptyCookie}
    THEN [sessionId |-> n + 1, minted |-> n + 1, setCookie |-> n + 1]
    ELSE [sessionId |-> cookie, minted |-> n, setCookie |-> NoCookie]

\* A res.write that throws when the client is gone.
SendThrows(tr) == IF tr = "open" THEN "delivered" ELSE "throws"

\* res.write on a response whose client is gone neither throws nor is retried:
\* the frame is lost.
SendOutcome(tr) == IF tr = "open" THEN "delivered" ELSE "lost"

\* A count frame whose uniqueVisitors is filled from totalConnections.
CountFrameTotalAsUnique(total, unique, ev, outcome) ==
    [kind |-> "count", totalConnections |-> total, uniqueVisitors |-> total,
     event |-> ev, ok |-> (outcome = "delivered")]

CountFrame(total, unique, ev, outcome) ==
    [kind |-> "count", totalConnections |-> total, uniqueVisitors |-> unique,
     event |-> ev, ok |-> (outcome = "delivered")]

\* The heartbeat written as a data line instead of a comment.
HeartbeatAsData(outcome) == [kind |-> "data", ok |-> (outcome = "delivered")]

HeartbeatFrame(outcome) == [kind |-> "heartbeat", ok |-> (outcome = "delivered")]

\* The two nested forEach loops of broadcastCount over the handles in `order`;
\* an exception thrown by a write ends the iteration.
RECURSIVE WriteAll(_, _, _, _, _, _)
WriteAll(order, total, unique, ev, wr, tr) ==
    IF order = <<>> THEN [written |-> wr, threw |-> FALSE]
    ELSE LET res == Head(order)
             out == SendOutcome(tr[res])
         IN IF out = "throws" THEN [written |-> wr, threw |-> TRUE]
            ELSE WriteAll(Tail(order), total, unique, ev,
                          [wr EXCEPT ![res] =
                              Append(@, CountFrame(total, unique, ev, out))],
                          tr)

\* broadcastCount without the outer forEach: only the first session is served.
broadcastFirstSessionOnly(ac, total, ev, wr, tr) ==
    WriteAll(IF ac = <<>> THEN <<>> ELSE Head(ac).responses,
             total, uniqueVisitors(ac), ev, wr, tr)

broadcastCount(ac, total, ev, wr, tr) ==
    WriteAll(Flatten(ac), total, uniqueVisitors(ac), ev, wr, tr)

\* Attach with totalConnections++ moved into the if block of line 66.
AttachCountsNewSessionOnly(ac, total, sid, res) ==
    LET ac1 == IF has(ac, sid) THEN ac
               ELSE Append(ac, [sessionId |-> sid, responses |-> <<>>])
        i == indexOf(ac1, sid)
    IN [ac |-> [ac1 EXCEPT ![i].responses = SetAdd(@, res)],
        total |-> IF has(ac, sid) THEN total ELSE total + 1]

\* Attach with the set of line 67 made anew on every connect.
AttachResetsSession(ac, total, sid, res) ==
    LET ac1 == IF has(ac, sid) THEN ac
               ELSE Append(ac, [sessionId |-> sid, responses |-> <<>>])
        i == indexOf(ac1, sid)
    IN [ac |-> [ac1 EXCEPT ![i].responses = <<res>>],
        total |-> total + 1]

\* Lines 66-70 of the /events handler.
Attach(ac, total, sid, res) ==
    LET ac1 == IF has(ac, sid) THEN ac
               ELSE Append(ac, [sessionId |-> sid, responses |-> <<>>])
        i == indexOf(ac1, sid)
    IN [ac |-> [ac1 EXCEPT ![i].responses = SetAdd(@, res)],
        total |-> total + 1]

\* Detach without the test of line 89: the counter goes down also when the
\* visitor has no entry.
DetachUnguarded(ac, total, sid, res) ==
    IF ~has(ac, sid) THEN [ac |-> ac, total |-> total - 1]
    ELSE LET i == indexOf(ac, sid)
             ac1 == [ac EXCEPT ![i].responses = SetDelete(@, res)]
         IN [ac |-> IF Len(ac1[i].responses) = 0 THEN MapDelete(ac1, sid) ELSE ac1,
             total |-> total - 1]

\* Detach without the pruning of lines 94-96.
DetachNoPrune(ac, total, sid, res) ==
    IF ~has(ac, sid) THEN [ac |-> ac, total |-> total]
    ELSE LET i == indexOf(ac, sid)
         IN [ac |-> [ac EXCEPT ![i].responses = SetDelete(@, res)],
             total |-> total - 1]

\* Detach without the delete of line 90.
DetachKeepsHandle(ac, total, sid, res) ==
    IF ~has(ac, sid) THEN [ac |-> ac, total |-> total]
    ELSE [ac |-> IF Len(get(ac, sid)) = 0 THEN MapDelete(ac, sid) ELSE ac,
          total |-> total - 1]

\* Detach with totalConnections-- moved into the if block of line 94.
DetachDecrementsOnPrune(ac, total, sid, res) ==
    IF ~has(ac, sid) THEN [ac |-> ac, total |-> total]
    ELSE LET i == indexOf(ac, sid)
             ac1 == [ac EXCEPT ![i].responses = SetDelete(@, res)]
         IN IF Len(ac1[i].responses) = 0
            THEN [ac |-> MapDelete(ac1, sid), total |-> total - 1]
            ELSE [ac |-> ac1, total |-> total]

\* Detach with the delete of line 95 done whatever the set still holds.
DetachDropsSession(ac, total, sid, res) ==
    IF ~has(ac, sid) THEN [ac |-> ac, total |-> total]
    ELSE [ac |-> MapDelete(ac, sid), total |-> total - 1]

\* Lines 88-97 of the close listener.
Detach(ac, total, sid, res) ==
    IF ~has(ac, sid) THEN [ac |-> ac, total |-> total]
    ELSE LET i == indexOf(ac, sid)
             ac1 == [ac EXCEPT ![i].responses = SetDelete(@, res)]
         IN [ac |-> IF Len(ac1[i].responses) = 0 THEN MapDelete(ac1, sid) ELSE ac1,
             total |-> total - 1]

----------------------------------------------------------------------------
Init ==
    /\ activeConnections = <<>>
    /\ totalConnections = 0
    /\ minted = 0
    /\ sessionOf = [h \in Handles |-> NoCookie]
    /\ reqCookie = [h \in Handles |-> NoCookie]
    /\ transport = [h \in Handles |-> "none"]
    /\ timer = [h \in Handles |-> FALSE]
    /\ listener = [h \in Handles |-> FALSE]
    /\ written = [h \in Handles |-> <<>>]
    /\ running = TRUE
    /\ ticks = 0
    /\ events = 0
    /\ snapshots = <<>>
    /\ closeCalls = [h \in Handles |-> 0]
    /\ decrements = [h \in Handles |-> 0]
    /\ health = <<>>
    /\ jar = [b \in Browsers |-> NoCookie]
    /\ requests = <<>>
    /\ setCookie = [h \in Handles |-> NoCookie]
    /\ clock = 0
    /\ due = {}
    /\ lastTick = [registered |-> {}, heartbeats |-> [h \in Handles |-> 0]]
    /\ tabBrowser = [t \in Tabs |-> 0]
    /\ readyState = [t \in Tabs |-> "none"]
    /\ connectionStatus = [t \in Tabs |-> "Connecting..."]
    /\ request = [t \in Tabs |-> <<>>]
    /\ streamOf = [t \in Tabs |-> NoStream]
    /\ stops = 0
    /\ visitorCount = [t \in Tabs |-> <<0, 0>>]
    /\ lastUpdate = [t \in Tabs |-> NoUpdate]
    /\ cursor = [t \in Tabs |-> 0]
    /\ received = [t \in Tabs |-> <<>>]

\* The /events handler with broadcastCount called before the attach.
ConnectBroadcastsFirst(res, cookie) ==
    /\ running
    /\ transport[res] = "none"
    /\ \A h \in Handles : h < res => transport[h] # "none"
    /\ LET id == getSessionId(cookie, minted)
           at == Attach(activeConnections, totalConnections, id.sessionId, res)
           tr == [transport EXCEPT ![res] = "open"]
           br == broadcastCount(activeConnections, totalConnections, events + 1,
                                written, tr)
       IN /\ minted' = id.minted
          /\ sessionOf' = [sessionOf EXCEPT ![res] = id.sessionId]
          /\ reqCookie' = [reqCookie EXCEPT ![res] = cookie]
          /\ setCookie' = [setCookie EXCEPT ![res] = id.setCookie]
          /\ activeConnections' = at.ac
          /\ totalConnections' = at.total
          /\ transport' = tr
          /\ written' = br.written
          /\ timer' = [timer EXCEPT ![res] = ~br.threw]
          /\ listener' = [listener EXCEPT ![res] = ~br.threw]
          /\ events' = events + 1
          /\ snapshots' = Append(snapshots, <<at.total, uniqueVisitors(at.ac)>>)
    /\ UNCHANGED <<running, ticks, closeCalls, decrements>>

\* GET /events with response object res and the given visitorId cookie.  An
\* exception out of broadcastCount would leave the handler before the timer
\* and the close listener are set up (Express answers it with an error).
Connect(res, cookie) ==
    /\ running
    /\ transport[res] = "none"
    /\ \A h \in Handles : h < res => transport[h] # "none"
    /\ LET id == getSessionId(cookie, minted)
           at == Attach(activeConnections, totalConnections, id.sessionId, res)
           tr == [transport EXCEPT ![res] = "open"]
           br == broadcastCount(at.ac, at.total, events + 1, written, tr)
       IN /\ minted' = id.minted
          /\ sessionOf' = [sessionOf EXCEPT ![res] = id.sessionId]
          /\ reqCookie' = [reqCookie EXCEPT ![res] = cookie]
          /\ setCookie' = [setCookie EXCEPT ![res] = id.setCookie]
          /\ activeConnections' = at.ac
          /\ totalConnections' = at.total
          /\ transport' = tr
          /\ written' = br.written
          /\ timer' = [timer EXCEPT ![res] = ~br.threw]
          /\ listener' = [listener EXCEPT ![res] = ~br.threw]
          /\ events' = events + 1
          /\ snapshots' = Append(snapshots, <<at.total, uniqueVisitors(at.ac)>>)
    /\ UNCHANGED <<running, ticks, closeCalls, decrements>>

\* The /events handler with totalConnections++ done before getSessionId is
\* called.
ConnectIdFailsAfterCount(res, cookie) ==
    /\ running
    /\ transport[res] = "none"
    /\ \A h \in Handles : h < res => transport[h] # "none"
    /\ cookie \in {NoCookie, EmptyCookie}
    /\ totalConnections' = totalConnections + 1
    /\ minted' = minted
    /\ reqCookie' = [reqCookie EXCEPT ![res] = cookie]
    /\ transport' = [transport EXCEPT ![res] = "failed"]
    /\ UNCHANGED <<activeConnections, sessionOf, setCookie, timer,
                   listener, written, running, ticks, events, snapshots,
                   closeCalls, decrements>>

\* GET /events in which getSessionId throws: uuidv4 or res.cookie, both on the
\* path of a request without a usable cookie (lines 27-28); in the second
\* case a uuid has been drawn.  The exception leaves the handler at line 57
\* and Express answers the request with an error.
ConnectIdFails(res, cookie) ==
    /\ running
    /\ transport[res] = "none"
    /\ \A h \in Handles : h < res => transport[h] # "none"
    /\ cookie \in {NoCookie, EmptyCookie}
    /\ minted' \in {minted, minted + 1}
    /\ reqCookie' = [reqCookie EXCEPT ![res] = cookie]
    /\ transport' = [transport EXCEPT ![res] = "failed"]
    /\ UNCHANGED <<activeConnections, totalConnections, sessionOf, setCookie, timer,
                   listener, written, running, ticks, events, snapshots,
                   closeCalls, decrements>>

\* The client of res goes away; Node will emit "close" on the request.
ClientGone(res) ==
    /\ running
    /\ transport[res] = "open"
    /\ transport' = [transport EXCEPT ![res] = "gone"]
    /\ UNCHANGED <<activeConnections, totalConnections, minted, sessionOf,
                   reqCookie, setCookie, timer,
                   listener, written, running, ticks, events, snapshots,
                   closeCalls, decrements>>

\* The close listener without the clearInterval of line 86.
CloseHandlerKeepsTimer(res) ==
    LET de == Detach(activeConnections, totalConnections, sessionOf[res], res)
        br == broadcastCount(de.ac, de.total, events + 1, written, transport')
    IN /\ timer' = timer
       /\ activeConnections' = de.ac
       /\ totalConnections' = de.total
       /\ written' = br.written
       /\ running' = ~br.threw
       /\ events' = events + 1
       /\ snapshots' = Append(snapshots, <<de.total, uniqueVisitors(de.ac)>>)
       /\ closeCalls' = [closeCalls EXCEPT ![res] = @ + 1]
       /\ decrements' = [decrements EXCEPT ![res] = @ + (totalConnections - de.total)]
       /\ UNCHANGED <<minted, sessionOf, reqCookie, setCookie, listener, ticks>>

\* The body of the close listener of res (lines 85-105).  An exception out of
\* broadcastCount here is uncaught and ends the process.
CloseHandler(res) ==
    LET de == Detach(activeConnections, totalConnections, sessionOf[res], res)
        br == broadcastCount(de.ac, de.total, events + 1, written, transport')
    IN /\ timer' = [timer EXCEPT ![res] = FALSE]
       /\ activeConnections' = de.ac
       /\ totalConnections' = de.total
       /\ written' = br.written
       /\ running' = ~br.threw
       /\ events' = events + 1
       /\ snapshots' = Append(snapshots, <<de.total, uniqueVisitors(de.ac)>>)
       /\ closeCalls' = [closeCalls EXCEPT ![res] = @ + 1]
       /\ decrements' = [decrements EXCEPT ![res] = @ + (totalConnections - de.total)]
       /\ UNCHANGED <<minted, sessionOf, reqCookie, setCookie, listener, ticks>>

\* The listener put on an event that a client going away does not emit (such
\* as "finish" of the response): it never runs.
CloseNotDelivered(res) ==
    /\ FALSE
    /\ transport' = [transport EXCEPT ![res] = "closed"]
    /\ CloseHandler(res)

\* Node emits "close" on the request of res, once.
Close(res) ==
    /\ running
    /\ listener[res]
    /\ transport[res] = "gone"
    /\ transport' = [transport EXCEPT ![res] = "closed"]
    /\ CloseHandler(res)

\* A heartbeat that calls broadcastCount instead of writing its comment.
TickBroadcasts(res) ==
    /\ running
    /\ timer[res]
    /\ ticks < MaxTicks
    /\ written' = broadcastCount(activeConnections, totalConnections, events,
                                 written, transport).written
    /\ ticks' = ticks + 1
    /\ UNCHANGED <<activeConnections, totalConnections, minted, sessionOf,
                   reqCookie, setCookie,
                   transport, timer, listener, running, events, snapshots,
                   closeCalls, decrements>>

\* A heartbeat written to every registered response instead of its own.
TickWritesAll(res) ==
    /\ running
    /\ timer[res]
    /\ ticks < MaxTicks
    /\ written' = [h \in Handles |->
                      IF h \in Registered(activeConnections)
                      THEN Append(written[h], HeartbeatFrame(SendOutcome(transport[h])))
                      ELSE written[h]]
    /\ ticks' = ticks + 1
    /\ UNCHANGED <<activeConnections, totalConnections, minted, sessionOf,
                   reqCookie, setCookie,
                   transport, timer, listener, running, events, snapshots,
                   closeCalls, decrements>>

\* A timer that fires once, as one set with setTimeout does.
TickOnce(res) ==
    /\ running
    /\ timer[res]
    /\ ticks < MaxTicks
    /\ written' = [written EXCEPT ![res] =
                       Append(@, HeartbeatFrame(SendOutcome(transport[res])))]
    /\ timer' = [timer EXCEPT ![res] = FALSE]
    /\ ticks' = ticks + 1
    /\ UNCHANGED <<activeConnections, totalConnections, minted, sessionOf,
                   reqCookie, setCookie,
                   transport, listener, running, events, snapshots, closeCalls,
                   decrements>>

\* The setInterval callback of res fires (lines 80-82).
Tick(res) ==
    /\ running
    /\ timer[res]
    /\ ticks < MaxTicks
    /\ LET out == SendOutcome(transport[res])
       IN /\ running' = (out # "throws")
          /\ written' = IF out = "throws" THEN written
                        ELSE [written EXCEPT ![res] = Append(@, HeartbeatFrame(out))]
    /\ ticks' = ticks + 1
    /\ UNCHANGED <<activeConnections, totalConnections, minted, sessionOf,
                   reqCookie, setCookie,
                   transport, timer, listener, events, snapshots, closeCalls,
                   decrements>>

\* "close" is emitted again on the request of res: the listener was added with
\* on(), not once(), so it runs again.
CloseAgain(res) ==
    /\ running
    /\ listener[res]
    /\ transport[res] = "closed"
    /\ closeCalls[res] < MaxCloseCalls
    /\ UNCHANGED transport
    /\ CloseHandler(res)

\* The cookies a request may carry: none, or an id the server issued earlier.
Cookies == {NoCookie} \cup (1..minted)

\* The registry events: connects, clients going away, close notifications.
Next ==
    \/ \E res \in Handles, cookie \in 0..MaxHandles :
           /\ cookie \in Cookies /\ Connect(res, cookie)
           /\ UNCHANGED <<health, browser, timing, client>>
    \/ \E res \in Handles : ClientGone(res) /\ UNCHANGED <<health, browser, timing, client>>
    \/ \E res \in Handles : Close(res) /\ UNCHANGED <<health, browser, timing, client>>

Spec == Init /\ [][Next]_vars

\* The registry events of FewHandles requests, and the heartbeat timers.
NextHeartbeat ==
    \/ \E res \in 1..FewHandles, cookie \in 0..FewHandles :
           /\ cookie \in Cookies /\ Connect(res, cookie)
           /\ UNCHANGED <<health, browser, timing, client>>
    \/ \E res \in Handles : ClientGone(res) /\ UNCHANGED <<health, browser, timing, client>>
    \/ \E res \in Handles : Close(res) /\ UNCHANGED <<health, browser, timing, client>>
    \/ \E res \in Handles : Tick(res) /\ UNCHANGED <<health, browser, timing, client>>

SpecHeartbeat == Init /\ [][NextHeartbeat]_vars

\* The registry events with every visitorId cookie a request can carry, and
\* with requests whose identity cannot be resolved.
NextResolver ==
    \/ \E res \in Handles, cookie \in EmptyCookie..MaxHandles :
           /\ cookie \in Cookies \cup {EmptyCookie} /\ Connect(res, cookie)
           /\ UNCHANGED <<health, browser, timing, client>>
    \/ \E res \in Handles, cookie \in {NoCookie, EmptyCookie} :
           /\ ConnectIdFails(res, cookie)
           /\ UNCHANGED <<health, browser, timing, client>>
    \/ \E res \in Handles : ClientGone(res) /\ UNCHANGED <<health, browser, timing, client>>
    \/ \E res \in Handles : Close(res) /\ UNCHANGED <<health, browser, timing, client>>

SpecResolver == Init /\ [][NextResolver]_vars

\* The heartbeat frames among the frames wr.
Heartbeats(wr) == SelectSeq(wr, LAMBDA f : f.kind = "heartbeat")

\* One heartbeat interval passes.  The event loop runs a timer's callback when
\* it is due, so every running timer has fired before its next interval ends.
Elapse ==
    /\ running
    /\ clock < MaxClock
    /\ \A h \in due : ~timer[h]
    /\ clock' = clock + 1
    /\ due' = {h \in Handles : timer[h]}
    /\ lastTick' = [registered |-> Registered(activeConnections),
                    heartbeats |-> [h \in Handles |-> Len(Heartbeats(written[h]))]]
    /\ UNCHANGED <<activeConnections, totalConnections, minted, sessionOf,
                   reqCookie, setCookie,
                   transport, timer, listener, written, running, ticks, events,
                   snapshots, closeCalls, decrements, health, browser, client>>

\* The interval callback of res runs when it is due.
TickDue(res) ==
    /\ res \in due
    /\ Tick(res)
    /\ due' = due \ {res}
    /\ UNCHANGED <<health, browser, clock, lastTick, client>>

\* The registry events of FewHandles requests and the heartbeat timers, with
\* the time between the firings.
NextClock ==
    \/ \E res \in 1..FewHandles, cookie \in 0..FewHandles :
           /\ cookie \in Cookies /\ Connect(res, cookie)
           /\ UNCHANGED <<health, browser, timing, client>>
    \/ \E res \in Handles : ClientGone(res) /\ UNCHANGED <<health, browser, timing, client>>
    \/ \E res \in Handles : Close(res) /\ UNCHANGED <<health, browser, timing, client>>
    \/ \E res \in Handles : TickDue(res)
    \/ Elapse

SpecClock == Init /\ [][NextClock]_vars

\* The registry events of FewHandles requests, with close events delivered
\* more than once.
NextDoubleClose ==
    \/ \E res \in 1..FewHandles, cookie \in 0..FewHandles :
           /\ cookie \in Cookies /\ Connect(res, cookie)
           /\ UNCHANGED <<health, browser, timing, client>>
    \/ \E res \in Handles : ClientGone(res) /\ UNCHANGED <<health, browser, timing, client>>
    \/ \E res \in Handles : Close(res) /\ UNCHANGED <<health, browser, timing, client>>
    \/ \E res \in Handles : CloseAgain(res) /\ UNCHANGED <<health, browser, timing, client>>

SpecDoubleClose == Init /\ [][NextDoubleClose]_vars

\* How many times a close listener has run for a second or later time.
Repeats ==
    Cardinality({<<h, n>> \in Handles \X (2..MaxCloseCalls) : closeCalls[h] >= n})

\* The registry events of FewHandles requests with everything that writes to
\* a stream or runs a handler again: heartbeats and repeated close events,
\* MaxTicks of them together.
NextFrames ==
    \/ \E res \in 1..FewHandles, cookie \in 0..FewHandles :
           /\ cookie \in Cookies /\ Connect(res, cookie)
           /\ UNCHANGED <<health, browser, timing, client>>
    \/ \E res \in Handles : ClientGone(res) /\ UNCHANGED <<health, browser, timing, client>>
    \/ \E res \in Handles : Close(res) /\ UNCHANGED <<health, browser, timing, client>>
    \/ \E res \in Handles :
           /\ ticks + Repeats < MaxTicks
           /\ Tick(res) /\ UNCHANGED <<health, browser, timing, client>>
    \/ \E res \in Handles :
           /\ ticks + Repeats < MaxTicks
           /\ CloseAgain(res) /\ UNCHANGED <<health, browser, timing, client>>

SpecFrames == Init /\ [][NextFrames]_vars

\* A /health body that reports the number of connections as uniqueVisitors.
healthResponseCountsHandles(ac, total, ev) ==
    [status |-> "ok", totalConnections |-> total, uniqueVisitors |-> SumSizes(ac),
     at |-> ev]

\* The body of the GET /health response (lines 110-115); `at` is history: the
\* number of registry handlers run before it.
healthResponse(ac, total, ev) ==
    [status |-> "ok", totalConnections |-> total, uniqueVisitors |-> Len(ac),
     at |-> ev]

\* GET /health that counts its request as a connection.
HealthCountsRequest ==
    /\ running
    /\ Len(health) + ticks < MaxTicks
    /\ health' = Append(health,
                        healthResponse(activeConnections, totalConnections, events))
    /\ totalConnections' = totalConnections + 1
    /\ UNCHANGED <<activeConnections, minted, sessionOf,
                   reqCookie, setCookie,
                   transport, timer, listener, written, running, ticks, events,
                   snapshots, closeCalls, decrements, browser, timing, client>>

\* GET /health (lines 109-116).  The requests share the budget of the
\* heartbeat firings, to keep SpecHealth small.
Health ==
    /\ running
    /\ Len(health) + ticks < MaxTicks
    /\ health' = Append(health,
                        healthResponse(activeConnections, totalConnections, events))
    /\ UNCHANGED <<activeConnections, totalConnections, minted, sessionOf,
                   reqCookie, setCookie,
                   transport, timer, listener, written, running, ticks, events,
                   snapshots, closeCalls, decrements, browser, timing, client>>

\* The registry events of FewHandles requests, the heartbeat timers and
\* GET /health.
NextHealth ==
    \/ \E res \in 1..FewHandles, cookie \in 0..FewHandles :
           /\ cookie \in Cookies /\ Connect(res, cookie)
           /\ UNCHANGED <<health, browser, timing, client>>
    \/ \E res \in Handles : ClientGone(res) /\ UNCHANGED <<health, browser, timing, client>>
    \/ \E res \in Handles : Close(res) /\ UNCHANGED <<health, browser, timing, client>>
    \/ \E res \in Handles :
           /\ Len(health) + ticks < MaxTicks
           /\ Tick(res) /\ UNCHANGED <<health, browser, timing, client>>
    \/ Health

SpecHealth == Init /\ [][NextHealth]_vars

\* A tab of the browser opens its EventSource: the request carries the cookie
\* the jar holds at that moment (page.tsx lines 20-22, withCredentials).
TabOpens ==
    /\ Len(requests) + Cardinality({h \in Handles : transport[h] # "none"})
          < FewHandles
    /\ requests' = Append(requests, jar[1])
    /\ UNCHANGED <<activeConnections, totalConnections, minted, sessionOf,
                   reqCookie,
                   transport, timer, listener, written, running, ticks, events,
                   snapshots, closeCalls, decrements, health, jar, setCookie,
                   timing, client>>

\* The server handles one of the browser's pending requests; the cookie that
\* getSessionId sets travels back with the response headers.
Accept(res, i) ==
    /\ i \in 1..Len(requests)
    /\ Connect(res, requests[i])
    /\ requests' = SubSeq(requests, 1, i - 1) \o SubSeq(requests, i + 1, Len(requests))
    /\ UNCHANGED <<health, jar, timing, client>>

\* The response headers of res reach the browser, which stores the cookie.
CookieArrives(res) ==
    /\ setCookie[res] # NoCookie
    /\ jar' = [jar EXCEPT ![1] = setCookie[res]]
    /\ setCookie' = [setCookie EXCEPT ![res] = NoCookie]
    /\ UNCHANGED <<activeConnections, totalConnections, minted, sessionOf,
                   reqCookie,
                   transport, timer, listener, written, running, ticks, events,
                   snapshots, closeCalls, decrements, health, requests,
                   timing, client>>

\* The tabs of one browser: requests, their handling by the server, cookies
\* arriving, tabs closing.
NextBrowser ==
    \/ TabOpens
    \/ \E res \in Handles, i \in 1..FewHandles : Accept(res, i)
    \/ \E res \in Handles : CookieArrives(res)
    \/ \E res \in Handles : ClientGone(res) /\ UNCHANGED <<health, browser, timing, client>>
    \/ \E res \in Handles : Close(res) /\ UNCHANGED <<health, browser, timing, client>>

SpecBrowser == Init /\ [][NextBrowser]_vars

\* SpecBrowser with the close event of every request whose client is gone
\* delivered in the end, as Node does after the socket is destroyed.
SpecFair ==
    /\ SpecBrowser
    /\ \A res \in Handles : WF_vars(Close(res) /\ UNCHANGED <<health, browser, timing, client>>)

\* The state of the server process apart from the connections' transports
\* and the cookies on their way.
core == <<activeConnections, totalConnections, minted, sessionOf, reqCookie,
          timer, listener, written, running, ticks, events, snapshots,
          closeCalls, decrements>>

\* onerror that leaves the status as it is.
onerrorKeepsStatus(status) == status

\* eventSource.onopen (lines 24-27) and eventSource.onerror (lines 42-46):
\* the status each of them sets.  The EventSource dispatches its events at
\* once and nothing else reads the status, so a handler runs in the step of
\* the event.
onopen(status) == "Connected"

onerror(status) == "Reconnecting..."

\* The page loads in tab t of browser b: the effect of lines 13-57 runs
\* connectToSSE, which sets the status and makes the EventSource; its request
\* carries the cookie the jar of b holds (withCredentials).  Tabs and
\* browsers are named in the order they come into use.
PageLoads(t, b) ==
    /\ readyState[t] = "none"
    /\ \A u \in Tabs : u < t => readyState[u] # "none"
    /\ b <= t
    /\ tabBrowser' = [tabBrowser EXCEPT ![t] = b]
    /\ connectionStatus' = [connectionStatus EXCEPT ![t] = "Connecting..."]
    /\ readyState' = [readyState EXCEPT ![t] = "connecting"]
    /\ request' = [request EXCEPT ![t] = <<jar[b]>>]
    /\ UNCHANGED <<core, transport, setCookie, health, browser, timing,
                   streamOf, stops, display>>

\* The server handles the request of tab t with response object res.
Serve(t, res) ==
    /\ request[t] # <<>>
    /\ Connect(res, request[t][1])
    /\ streamOf' = [streamOf EXCEPT ![t] = res]
    /\ request' = [request EXCEPT ![t] = <<>>]
    /\ cursor' = [cursor EXCEPT ![t] = 0]
    /\ UNCHANGED <<health, browser, timing, tabBrowser, readyState,
                   connectionStatus, stops, visitorCount, lastUpdate, received>>

\* The response headers reach tab t: the browser stores the cookie they set
\* and the EventSource is open and dispatches its open event.
HeadersArrive(t) ==
    /\ streamOf[t] # NoStream
    /\ readyState[t] = "connecting"
    /\ jar' = IF setCookie[streamOf[t]] = NoCookie THEN jar
              ELSE [jar EXCEPT ![tabBrowser[t]] = setCookie[streamOf[t]]]
    /\ setCookie' = [setCookie EXCEPT ![streamOf[t]] = NoCookie]
    /\ readyState' = [readyState EXCEPT ![t] = "open"]
    /\ connectionStatus' = [connectionStatus EXCEPT ![t] = onopen(@)]
    /\ UNCHANGED <<core, transport, health, requests, timing, tabBrowser,
                   request, streamOf, stops, display>>

\* The connection of tab t breaks: the server will see its close, the
\* EventSource goes back to connecting and dispatches its error event.  The
\* model lets it happen while a response object is left for the reconnection.
Drop(t) ==
    /\ streamOf[t] # NoStream
    /\ \E h \in 1..FewHandles : transport[h] = "none"
    /\ ClientGone(streamOf[t])
    /\ readyState' = [readyState EXCEPT ![t] = "connecting"]
    /\ connectionStatus' = [connectionStatus EXCEPT ![t] = onerror(@)]
    /\ streamOf' = [streamOf EXCEPT ![t] = NoStream]
    /\ UNCHANGED <<health, browser, timing, tabBrowser, request, stops, display>>

\* The EventSource of tab t connects again, after its reconnection time; the
\* request carries the cookie the jar holds now.
Retry(t) ==
    /\ readyState[t] = "connecting"
    /\ request[t] = <<>> /\ streamOf[t] = NoStream
    /\ request' = [request EXCEPT ![t] = <<jar[tabBrowser[t]]>>]
    /\ UNCHANGED <<core, transport, setCookie, health, browser, timing,
                   tabBrowser, readyState, connectionStatus, streamOf, stops, display>>

\* The request of tab t finds no server listening.
RequestFails(t) ==
    /\ request[t] # <<>>
    /\ ~running
    /\ request' = [request EXCEPT ![t] = <<>>]
    /\ connectionStatus' = [connectionStatus EXCEPT ![t] = onerror(@)]
    /\ UNCHANGED <<core, transport, setCookie, health, browser, timing,
                   tabBrowser, readyState, streamOf, stops, display>>

\* The page of tab t unmounts: the cleanup of lines 52-56 closes the
\* EventSource, which dispatches no event any more.
PageUnloads(t) ==
    /\ readyState[t] \in {"connecting", "open"}
    /\ IF streamOf[t] # NoStream THEN ClientGone(streamOf[t])
       ELSE UNCHANGED <<core, transport, setCookie>>
    /\ readyState' = [readyState EXCEPT ![t] = "closed"]
    /\ request' = [request EXCEPT ![t] = <<>>]
    /\ streamOf' = [streamOf EXCEPT ![t] = NoStream]
    /\ UNCHANGED <<health, browser, timing, tabBrowser, connectionStatus, stops, display>>

\* The tabs whose EventSource has a connection or a request under way.
Linked == {t \in Tabs : streamOf[t] # NoStream \/ request[t] # <<>>}

\* The server process is stopped: every connection and every request under
\* way breaks, and the response objects, timers and listeners of the process
\* are gone with it.
ServerStops ==
    /\ running
    /\ stops < MaxRestarts
    /\ running' = FALSE
    /\ stops' = stops + 1
    /\ readyState' = [t \in Tabs |-> IF t \in Linked THEN "connecting"
                                     ELSE readyState[t]]
    /\ connectionStatus' = [t \in Tabs |->
                                IF t \in Linked THEN onerror(connectionStatus[t])
                                ELSE connectionStatus[t]]
    /\ streamOf' = [t \in Tabs |-> NoStream]
    /\ request' = [t \in Tabs |-> <<>>]
    /\ sessionOf' = [h \in Handles |-> NoCookie]
    /\ reqCookie' = [h \in Handles |-> NoCookie]
    /\ transport' = [h \in Handles |-> "none"]
    /\ timer' = [h \in Handles |-> FALSE]
    /\ listener' = [h \in Handles |-> FALSE]
    /\ written' = [h \in Handles |-> <<>>]
    /\ events' = 0
    /\ snapshots' = <<>>
    /\ closeCalls' = [h \in Handles |-> 0]
    /\ decrements' = [h \in Handles |-> 0]
    /\ setCookie' = [h \in Handles |-> NoCookie]
    /\ UNCHANGED <<activeConnections, totalConnections, minted, ticks,
                   health, browser, timing, tabBrowser, display>>

\* A start that finds the counter of the process before it, as if it were
\* kept outside the process.
ServerStartsKeepsCounter ==
    /\ ~running
    /\ running' = TRUE
    /\ activeConnections' = <<>>
    /\ totalConnections' = totalConnections
    /\ UNCHANGED <<sessionOf, reqCookie, transport, timer, listener, written,
                   events, snapshots, closeCalls, decrements, setCookie, minted,
                   ticks, health, browser, timing, client>>

\* The server process is started: lines 19-20 run.  uuidv4 does not repeat
\* the ids of the process before it, so `minted` goes on.
ServerStarts ==
    /\ ~running
    /\ running' = TRUE
    /\ activeConnections' = <<>>
    /\ totalConnections' = 0
    /\ UNCHANGED <<sessionOf, reqCookie, transport, timer, listener, written,
                   events, snapshots, closeCalls, decrements, setCookie, minted,
                   ticks, health, browser, timing, client>>

\* One page and the server: the requests of its EventSource and its events,
\* connections that break, and the server stopped and started.
NextPage ==
    \/ PageLoads(1, 1)
    \/ \E res \in 1..FewHandles : Serve(1, res)
    \/ HeadersArrive(1)
    \/ Drop(1)
    \/ Retry(1)
    \/ RequestFails(1)
    \/ \E res \in Handles : Close(res) /\ UNCHANGED <<health, browser, timing, client>>
    \/ ServerStops
    \/ ServerStarts

SpecPage == Init /\ [][NextPage]_vars

\* SpecPage with what the browser and the server do in the end: a request
\* is answered or fails, headers arrive, the EventSource tries again, a
\* stopped server is started.
SpecPageFair ==
    /\ SpecPage
    /\ WF_vars(\E res \in 1..FewHandles : Serve(1, res))
    /\ WF_vars(HeadersArrive(1))
    /\ WF_vars(Retry(1))
    /\ WF_vars(RequestFails(1))
    /\ WF_vars(ServerStarts)

\* The tabs of the browsers and the server that is stopped and started: the
\* requests of the EventSources and the cookies, tabs that are closed.
\* Requests sent while the server is stopped, which fail and leave the tab as
\* it was, are left out.  Tabs are closed before the first stop, where the
\* server sees the close or is stopped before it does, and while the server
\* is down, where no server sees it.
NextRestart ==
    \/ \E t \in Tabs, b \in Browsers : running /\ PageLoads(t, b)
    \/ \E t \in Tabs, res \in 1..FewHandles : Serve(t, res)
    \/ \E t \in Tabs : HeadersArrive(t)
    \/ \E t \in Tabs : running /\ Retry(t)
    \/ \E t \in Tabs : (stops = 0 \/ ~running) /\ PageUnloads(t)
    \/ \E res \in Handles : Close(res) /\ UNCHANGED <<health, browser, timing, client>>
    \/ ServerStops
    \/ ServerStarts

SpecRestart == Init /\ [][NextRestart]_vars

----------------------------------------------------------------------------
\* The page and the messages of its stream.

\* The data of the message event of the count frame f: the text that
\* JSON.stringify made of the object of lines 41-45.  The timestamp is, for the
\* model, the number of the handler run that wrote the frame.
stringify(f) ==
    [json |-> "object",
     fields |-> [totalConnections |-> f.totalConnections,
                 uniqueVisitors |-> f.uniqueVisitors,
                 timestamp |-> f.event]]

\* Data that this server does not send: text that is no JSON, the JSON text
\* null, and the JSON text of an object without the fields of a count (only
\* of an object are the fields read).
Foreign ==
    {[json |-> "invalid", fields |-> [status |-> 0]],
     [json |-> "null", fields |-> [status |-> 0]],
     [json |-> "object", fields |-> [status |-> 0]]}

\* JSON.parse (line 31): it throws on text that is no JSON and returns the
\* value of the text otherwise, null for null.
JSONparse(data) ==
    IF data.json = "invalid" THEN [threw |-> TRUE, value |-> "none"]
    ELSE IF data.json = "null" THEN [threw |-> FALSE, value |-> "null"]
    ELSE [threw |-> FALSE, value |-> "object"]

\* data.totalConnections and the like (lines 33, 34, 36): reading a field of
\* null throws, a field the object does not have reads as undefined.
Field(data, name) ==
    IF name \in DOMAIN data.fields THEN data.fields[name] ELSE Undefined

\* new Date(timestamp).toLocaleTimeString() (line 36): a string that is not
\* empty, "Invalid Date" when the timestamp is undefined.
toLocaleTimeString(timestamp) == [shown |-> TRUE, time |-> timestamp]

\* onmessage with a catch block that clears what the page shows.
onmessageClearsOnError(count, update, data) ==
    LET parsed == JSONparse(data)
    IN IF parsed.threw \/ parsed.value = "null"
       THEN [visitorCount |-> <<0, 0>>, lastUpdate |-> NoUpdate]
       ELSE [visitorCount |-> <<Field(data, "totalConnections"),
                                Field(data, "uniqueVisitors")>>,
             lastUpdate |-> toLocaleTimeString(Field(data, "timestamp"))]

\* eventSource.onmessage (lines 29-40): the state of the page after the
\* handler.  JSON.parse and the reads of the fields are in one try block,
\* whose catch block changes no state.
onmessage(count, update, data) ==
    LET parsed == JSONparse(data)
    IN IF parsed.threw \/ parsed.value = "null"
       THEN [visitorCount |-> count, lastUpdate |-> update]
       ELSE [visitorCount |-> <<Field(data, "totalConnections"),
                                Field(data, "uniqueVisitors")>>,
             lastUpdate |-> toLocaleTimeString(Field(data, "timestamp"))]

\* A message event with the given data is dispatched to the page of tab t.
Dispatch(t, data) ==
    LET after == onmessage(visitorCount[t], lastUpdate[t], data)
    IN /\ received' = [received EXCEPT ![t] = Append(@, data)]
       /\ visitorCount' = [visitorCount EXCEPT ![t] = after.visitorCount]
       /\ lastUpdate' = [lastUpdate EXCEPT ![t] = after.lastUpdate]

\* The EventSource of tab t reads the next frame of its stream: a count frame
\* is a message event, a comment line is none.
OnMessage(t) ==
    /\ streamOf[t] # NoStream
    /\ readyState[t] = "open"
    /\ cursor[t] < Len(written[streamOf[t]])
    /\ Len(received[t]) < MaxMessages
    /\ cursor' = [cursor EXCEPT ![t] = @ + 1]
    /\ LET f == written[streamOf[t]][cursor[t] + 1]
       IN IF f.kind = "count" /\ f.ok
          THEN Dispatch(t, stringify(f))
          ELSE UNCHANGED <<visitorCount, lastUpdate, received>>
    /\ UNCHANGED <<core, transport, setCookie, health, browser, timing,
                   tabBrowser, readyState, connectionStatus, request, streamOf,
                   stops>>

\* A message event whose data did not come from broadcastCount reaches the
\* open EventSource of tab t.
OnMessageData(t, data) ==
    /\ readyState[t] = "open"
    /\ Len(received[t]) < MaxMessages
    /\ Dispatch(t, data)
    /\ UNCHANGED <<core, transport, setCookie, health, browser, timing,
                   tabBrowser, readyState, connectionStatus, request, streamOf,
                   stops, cursor>>

\* One page and the server as in NextPage, with the message events of the
\* page.
NextMessages ==
    \/ PageLoads(1, 1)
    \/ \E res \in 1..FewHandles : Serve(1, res)
    \/ HeadersArrive(1)
    \/ Drop(1)
    \/ Retry(1)
    \/ RequestFails(1)
    \/ \E res \in Handles : Close(res) /\ UNCHANGED <<health, browser, timing, client>>
    \/ ServerStops
    \/ ServerStarts
    \/ OnMessage(1)
    \/ \E data \in Foreign : OnMessageData(1, data)

SpecMessages == Init /\ [][NextMessages]_vars

----------------------------------------------------------------------------
\* What the properties below speak of.

\* The handles whose /events handler has run and whose close has not.
Live == {h \in Handles : transport[h] \in {"open", "gone"}}

\* The handles for which res.write has been called while the client was gone.
SendFailed(h) == \E i \in 1..Len(written[h]) : ~written[h][i].ok

\* The count frames written to h by the handler run number ev.
FramesOf(h, ev) ==
    {i \in 1..Len(written[h]) :
        written[h][i].kind = "count" /\ written[h][i].event = ev}

RECURSIVE SumOver(_, _)
SumOver(f, S) ==
    IF S = {} THEN 0
    ELSE LET x == CHOOSE y \in S : TRUE IN f[x] + SumOver(f, S \ {x})

\* A step that ran the close listener of h.
ClosedIn(h) == closeCalls'[h] = closeCalls[h] + 1

----------------------------------------------------------------------------
\* C1: in every reachable state totalConnections equals the sum of the sizes
\* of the handle sets stored in activeConnections.
C1_TotalIsSumOfSetSizes ==
    totalConnections = SumSizes(activeConnections)

\* C1 witness: two connections of one visitor are registered after a third
\* connection has been closed.
C1_Witness ==
    /\ \E h \in Handles : closeCalls[h] = 1
    /\ \E i \in 1..Len(activeConnections) : Len(activeConnections[i].responses) = 2
    /\ totalConnections = 2

\* C2: the close listener run twice for one handle takes exactly one off
\* totalConnections in total, whatever else the visitor has attached.
C2_DoubleDetachDecrementsOnce ==
    \A h \in Handles : closeCalls[h] >= 2 => decrements[h] = 1

\* C3: a visitor id is a key exactly when its handle set is non-empty; the
\* close of a visitor's last handle removes the key in the same step and the
\* close of another handle keeps it.
C3_KeyIffNonEmpty ==
    /\ [](/\ \A i \in 1..Len(activeConnections) :
                activeConnections[i].responses # <<>>
          /\ \A i, j \in 1..Len(activeConnections) :
                activeConnections[i].sessionId = activeConnections[j].sessionId
                    => i = j
          /\ \A h \in Live : sessionOf[h] \in Keys(activeConnections))
    /\ [][\A h \in Handles : ClosedIn(h) =>
            IF HandlesOf(activeConnections, sessionOf[h]) = {h}
            THEN /\ sessionOf[h] \notin Keys(activeConnections')
                 /\ Len(activeConnections') = Len(activeConnections) - 1
            ELSE /\ sessionOf[h] \in Keys(activeConnections')
                 /\ Len(activeConnections') = Len(activeConnections)]_vars

\* C3 witness: one visitor has lost one of two handles and is still a key,
\* another visitor has lost its only handle and is no key any more.
C3_Witness ==
    \E a, b, c \in Handles :
        /\ sessionOf[a] = sessionOf[b] /\ a # b
        /\ transport[a] = "closed" /\ transport[b] = "open"
        /\ sessionOf[b] \in Keys(activeConnections)
        /\ transport[c] = "closed" /\ sessionOf[c] # sessionOf[a]
        /\ sessionOf[c] \notin Keys(activeConnections)

\* C4: the handler of every attach and detach writes, to every handle that
\* is registered after it, one count frame carrying the counts the registry
\* has after it; no count frame carries other counts than those of the state
\* its own handler produced.
C4_BroadcastAfterEvent ==
    /\ [][events' # events =>
            \A h \in Registered(activeConnections') :
                /\ Len(written'[h]) = Len(written[h]) + 1
                /\ SubSeq(written'[h], 1, Len(written[h])) = written[h]
                /\ LET f == written'[h][Len(written'[h])]
                   IN /\ f.kind = "count"
                      /\ f.event = events'
                      /\ f.totalConnections = totalConnections'
                      /\ f.uniqueVisitors = Cardinality(Keys(activeConnections'))]_vars
    /\ [](\A h \in Handles : \A i \in 1..Len(written[h]) :
            written[h][i].kind = "count" =>
                /\ written[h][i].event \in 1..Len(snapshots)
                /\ snapshots[written[h][i].event] =
                       <<written[h][i].totalConnections, written[h][i].uniqueVisitors>>)

\* C4 witness: a handle of a second session received the frame of a detach
\* that left two visitors registered.
C4_Witness ==
    \E h, g \in Handles :
        /\ transport[g] = "closed"
        /\ h \in Registered(activeConnections)
        /\ Len(activeConnections) = 2
        /\ sessionOf[h] = activeConnections[2].sessionId
        /\ \E i \in FramesOf(h, events) :
              /\ written[h][i].totalConnections = totalConnections
              /\ written[h][i].uniqueVisitors = 2
              /\ written[h][i].ok
        /\ closeCalls[g] = 1 /\ events = 4

\* C5: a handle that has had a failed send and a close notification is torn
\* down exactly once: it is out of the registry and its teardown took one off
\* totalConnections; no handle is ever torn down twice.
C5_TeardownExactlyOnce ==
    /\ \A h \in Handles : decrements[h] <= 1 /\ closeCalls[h] <= 1
    /\ \A h \in Handles :
          (SendFailed(h) /\ transport[h] = "closed") =>
              /\ decrements[h] = 1
              /\ closeCalls[h] = 1
              /\ h \notin Registered(activeConnections)
    /\ totalConnections =
          Cardinality({h \in Handles : transport[h] # "none"})
              - SumOver(decrements, Handles)

\* C5 witness: a send to h failed, then its close was processed, while
\* another connection of the same visitor stays registered.
C5_Witness ==
    \E h, g \in Handles :
        /\ h # g /\ sessionOf[h] = sessionOf[g]
        /\ SendFailed(h) /\ transport[h] = "closed"
        /\ g \in Registered(activeConnections)
        /\ totalConnections = 1

\* C6: a handle to which a send has failed, a count push or a heartbeat, is
\* detached: it is out of the registry and its timer is cancelled.
C6_FailedSendDetaches ==
    \A h \in Handles :
        SendFailed(h) => h \notin Registered(activeConnections) /\ ~timer[h]

\* C7: a broadcast in which the send to one registered handle fails still
\* writes its count frame to every registered handle.
C7_FailedSendDoesNotAbortBroadcast ==
    [][(/\ events' # events
        /\ \E x \in Registered(activeConnections') : transport'[x] # "open") =>
            \A h \in Registered(activeConnections') :
                /\ Len(written'[h]) = Len(written[h]) + 1
                /\ written'[h][Len(written'[h])].kind = "count"
                /\ written'[h][Len(written'[h])].event = events'
                /\ written'[h][Len(written'[h])].ok = (transport'[h] = "open")]_vars

\* C7 witness: the latest broadcast failed on x, which comes first in the
\* iteration, and was delivered to a handle that comes after x.
C7_Witness ==
    /\ Len(Flatten(activeConnections)) >= 2
    /\ LET x == Flatten(activeConnections)[1]
           h == Flatten(activeConnections)[Len(Flatten(activeConnections))]
       IN /\ \E i \in FramesOf(x, events) : ~written[x][i].ok
          /\ \E j \in FramesOf(h, events) : written[h][j].ok

\* C8: a connect whose broadcast fails on some other handle still completes:
\* the new handle is registered with its timer and its close listener, the
\* process runs on, and no other connection is touched.
C8_SendFailureConfinedOnAttach ==
    [][\A y \in Handles :
          (/\ transport[y] = "none" /\ transport'[y] = "open"
           /\ \E x \in Registered(activeConnections) : transport[x] = "gone") =>
              /\ Registered(activeConnections') =
                     Registered(activeConnections) \cup {y}
              /\ timer'[y] /\ listener'[y]
              /\ running'
              /\ totalConnections' = totalConnections + 1
              /\ closeCalls' = closeCalls
              /\ \A h \in Handles \ {y} :
                    /\ timer'[h] = timer[h]
                    /\ listener'[h] = listener[h]
                    /\ transport'[h] = transport[h]]_vars

\* C8 witness: y connected while the send to x failed; y has its timer, its
\* listener and its first frame, and x is still set up as before.
C8_Witness ==
    \E x, y \in Handles :
        /\ x # y
        /\ written[y] # <<>> /\ written[y][1].ok
        /\ \E i \in FramesOf(x, written[y][1].event) : ~written[x][i].ok
        /\ timer[y] /\ listener[y] /\ y \in Registered(activeConnections)
        /\ timer[x] /\ listener[x] /\ x \in Registered(activeConnections)
        /\ running

\* C9: totalConnections is the number of connects minus the number of closes;
\* once every connected handle is closed the registry is empty and both
\* counts are 0.
C9_NoLostUpdates ==
    /\ totalConnections =
          Cardinality({h \in Handles : transport[h] # "none"})
              - SumOver(closeCalls, Handles)
    /\ Live = {} =>
          /\ totalConnections = 0
          /\ Cardinality(Keys(activeConnections)) = 0
          /\ activeConnections = <<>>

\* C9 witness: every request has connected, under two visitor ids, and every
\* one has been closed.
C9_Witness ==
    /\ \A h \in Handles : transport[h] = "closed"
    /\ Cardinality({sessionOf[h] : h \in Handles}) = 2
    /\ totalConnections = 0

\* C10: the counts of the registry, and those the latest broadcast carried,
\* are the number of handles attached and not yet detached and the number of
\* visitor ids with such a handle.
C10_CountsMatchReference ==
    LET refTotal == Cardinality(Live)
        refUnique == Cardinality({sessionOf[h] : h \in Live})
    IN /\ totalConnections = refTotal
       /\ Cardinality(Keys(activeConnections)) = refUnique
       /\ Registered(activeConnections) = Live
       /\ events > 0 => snapshots[events] = <<refTotal, refUnique>>
       /\ \A h \in Live : \E i \in FramesOf(h, events) :
             /\ written[h][i].totalConnections = refTotal
             /\ written[h][i].uniqueVisitors = refUnique

\* C10 witness: attach v1/h1, v1/h2, v2/h3, then detach h1, h2, h3.
C10_Witness ==
    /\ sessionOf = <<1, 1, 2>>
    /\ snapshots = <<<<1, 1>>, <<2, 1>>, <<3, 2>>, <<2, 2>>, <<1, 1>>, <<0, 0>>>>
    /\ written[3][Len(written[3])].totalConnections = 1
    /\ written[3][Len(written[3])].uniqueVisitors = 1

\* The counts the registry had after handler run number k (0: at the start).
CountsAfter(k) == IF k = 0 THEN <<0, 0>> ELSE snapshots[k]

\* The handles whose connect was handler run number k.
ConnectedIn(k) ==
    {h \in Handles : written[h] # <<>> /\ written[h][1].kind = "count"
                        /\ written[h][1].event = k}

\* C11: a connect adds exactly 1 to totalConnections, and 1 to uniqueVisitors
\* if its visitor had no handle before, else 0; so N connects in a row under
\* one visitor id add N to totalConnections and at most 1 to uniqueVisitors.
C11_MultiAttachOneVisitor ==
    /\ [][\A y \in Handles :
            (transport[y] = "none" /\ transport'[y] # "none") =>
                /\ totalConnections' = totalConnections + 1
                /\ Cardinality(Keys(activeConnections')) =
                      Cardinality(Keys(activeConnections))
                        + (IF HandlesOf(activeConnections, sessionOf'[y]) = {}
                           THEN 1 ELSE 0)]_vars
    /\ [](\A i, j \in 0..events :
            (/\ i < j
             /\ \E v \in 1..MaxHandles : \A k \in (i + 1)..j :
                   \E h \in ConnectedIn(k) : sessionOf[h] = v) =>
                /\ CountsAfter(j)[1] - CountsAfter(i)[1] = j - i
                /\ CountsAfter(j)[2] - CountsAfter(i)[2] \in {0, 1})

\* C11 witness: with one visitor connected, two connects in a row under a
\* second visitor id took the counts from (1,1) to (3,2).
C11_Witness ==
    /\ snapshots = <<<<1, 1>>, <<2, 2>>, <<3, 2>>>>
    /\ \E h \in ConnectedIn(2), g \in ConnectedIn(3) : sessionOf[h] = sessionOf[g]
    /\ Cardinality(Keys(activeConnections)) = 2
    /\ totalConnections = 3

\* C12: the tabs of one browser are one unique visitor, however their
\* requests and the Set-Cookie responses interleave, and each open tab is one
\* connection.
C12_TabsAreOneVisitor ==
    /\ Cardinality(Keys(activeConnections)) <= 1
    /\ totalConnections = Cardinality(Live)

\* C13: every count frame and every /health body carries the counter and
\* the number of keys of one state the registry was in: the state after the
\* handler that broadcast the frame, or the state in which /health was served.
\* The registry changes only in the handlers of connects and closes.
C13_FramesCarryOneState ==
    /\ [][/\ events' # events =>
                /\ events' = events + 1
                /\ Len(snapshots') = events'
                /\ snapshots'[events'] =
                      <<totalConnections', Cardinality(Keys(activeConnections'))>>
          /\ events' = events =>
                /\ activeConnections' = activeConnections
                /\ totalConnections' = totalConnections
                /\ snapshots' = snapshots
          /\ \A i \in 1..Len(health') : i > Len(health) =>
                /\ health'[i].totalConnections = totalConnections
                /\ health'[i].uniqueVisitors = Cardinality(Keys(activeConnections))
                /\ health'[i].at = events]_vars
    /\ [](/\ \A h \in Handles : \A i \in 1..Len(written[h]) :
                written[h][i].kind = "count" =>
                    /\ written[h][i].event \in 1..events
                    /\ <<written[h][i].totalConnections, written[h][i].uniqueVisitors>>
                          = CountsAfter(written[h][i].event)
          /\ \A i \in 1..Len(health) :
                /\ health[i].at \in 0..events
                /\ <<health[i].totalConnections, health[i].uniqueVisitors>>
                      = CountsAfter(health[i].at))

\* C13 witness: /health was served with two connections of one visitor
\* registered, the handles hold the frame of that state, and one of them has
\* been closed since.
C13_Witness ==
    /\ \E i \in 1..Len(health) :
          /\ health[i].totalConnections = 2 /\ health[i].uniqueVisitors = 1
          /\ \A h \in 1..2 : \E j \in FramesOf(h, health[i].at) :
                /\ written[h][j].totalConnections = 2
                /\ written[h][j].uniqueVisitors = 1
    /\ totalConnections = 1

\* The count frames among the frames wr.
CountFrames(wr) == SelectSeq(wr, LAMBDA f : f.kind = "count")

\* How many count frames of handler run number ev are among the frames wr.
FrameCount(wr, ev) ==
    Cardinality({i \in 1..Len(wr) : wr[i].kind = "count" /\ wr[i].event = ev})

\* C14: every attach and every detach produces exactly one snapshot, of which
\* every handle registered after it is written exactly one count frame, the
\* same for all, and no other handle any; heartbeats and /health requests
\* produce no count frame.
C14_OneFramePerChange ==
    /\ [][/\ events' # events =>
                /\ Len(snapshots') = Len(snapshots) + 1
                /\ \A h \in Handles :
                      IF h \in Registered(activeConnections')
                      THEN /\ FrameCount(written'[h], events') = 1
                           /\ Len(written'[h]) = Len(written[h]) + 1
                      ELSE written'[h] = written[h]
          /\ events' = events =>
                /\ snapshots' = snapshots
                /\ \A h \in Handles : CountFrames(written'[h]) = CountFrames(written[h])]_vars
    /\ [](/\ Len(snapshots) = events
          /\ \A h \in Handles : \A ev \in 1..events : FrameCount(written[h], ev) <= 1
          /\ \A h, g \in Handles : \A i \in 1..Len(written[h]), j \in 1..Len(written[g]) :
                (/\ written[h][i].kind = "count" /\ written[g][j].kind = "count"
                 /\ written[h][i].event = written[g][j].event) =>
                    /\ written[h][i].totalConnections = written[g][j].totalConnections
                    /\ written[h][i].uniqueVisitors = written[g][j].uniqueVisitors)

\* C14 witness: after a heartbeat and a /health request, two registered
\* handles each hold one frame of the latest change and the first holds one
\* frame of each of the two changes.
C14_Witness ==
    /\ ticks = 1 /\ Len(health) = 1
    /\ events = 2
    /\ Registered(activeConnections) = {1, 2}
    /\ FrameCount(written[1], 1) = 1 /\ FrameCount(written[1], 2) = 1
    /\ FrameCount(written[2], 2) = 1
    /\ Len(written[1]) + Len(written[2]) = 4

\* C15: the first frame written to a handle is written in its own connect
\* step, before any heartbeat: a count frame with the counts after its own
\* attach, so totalConnections >= 1 and uniqueVisitors >= 1.
C15_FirstFrameIsOwnCount ==
    /\ [][\A y \in Handles :
            (transport[y] = "none" /\ transport'[y] # "none") =>
                /\ written[y] = <<>>
                /\ Len(written'[y]) = 1
                /\ written'[y][1].kind = "count"
                /\ written'[y][1].ok
                /\ written'[y][1].totalConnections = totalConnections'
                /\ written'[y][1].uniqueVisitors = Cardinality(Keys(activeConnections'))
                /\ y \in Registered(activeConnections')]_vars
    /\ [](\A h \in Handles :
            IF transport[h] = "none" THEN written[h] = <<>>
            ELSE /\ written[h] # <<>>
                 /\ written[h][1].kind = "count"
                 /\ written[h][1].totalConnections >= 1
                 /\ written[h][1].uniqueVisitors >= 1)

\* C15 witness: the second handle got the counts (2,2) as its first frame and
\* a heartbeat after it, while the first handle has only its own first frame
\* and the frame of the second connect.
C15_Witness ==
    /\ Len(written[2]) = 2
    /\ written[2][1].kind = "count" /\ written[2][1].totalConnections = 2
    /\ written[2][1].uniqueVisitors = 2
    /\ written[2][2].kind = "heartbeat"
    /\ Len(written[1]) = 2

\* C16: every attached handle whose client is gone is detached in the end,
\* out of the registry and off the counter; with no close notification
\* pending the registry holds exactly the handles whose transport is open.
C16_ClosedHandlesGetDetached ==
    /\ \A h \in Handles :
          (transport[h] = "gone") ~>
              (/\ transport[h] = "closed"
               /\ h \notin Registered(activeConnections)
               /\ decrements[h] = 1)
    /\ []((\A h \in Handles : transport[h] # "gone") =>
              /\ Registered(activeConnections) =
                     {h \in Handles : transport[h] = "open"}
              /\ totalConnections =
                     Cardinality({h \in Handles : transport[h] = "open"}))

\* C16 witness: the first handle's close has been processed and nothing is
\* pending; the registry holds the handle that is still open.
C16_Witness ==
    /\ transport[1] = "closed" /\ transport[2] = "open"
    /\ Registered(activeConnections) = {2}
    /\ decrements[1] = 1
    /\ totalConnections = 1

\* C17: the close listener of a handle runs only after its connect handler
\* has attached it and written it its first count frame, and only for a
\* handle still in the registry; a client can go away only from a handle
\* whose close listener is installed, so no close is lost.
C17_DetachAfterAttach ==
    /\ [][\A h \in Handles : ClosedIn(h) =>
            /\ transport[h] = "gone"
            /\ listener[h]
            /\ h \in Registered(activeConnections)
            /\ written[h] # <<>>
            /\ written[h][1].kind = "count"
            /\ h \in ConnectedIn(written[h][1].event)
            /\ written[h][1].event < events']_vars
    /\ [](\A h \in Live : listener[h] /\ h \in Registered(activeConnections))

\* C17 witness: the second handle was closed after its connect, while the
\* handles connected before and after it are still open.
C17_Witness ==
    /\ transport = <<"open", "closed", "open">>
    /\ closeCalls[2] = 1
    /\ written[2] # <<>> /\ written[2][1].event = 2
    /\ events = 4

\* C18: once the close of a handle has been processed no frame is written to
\* it any more, heartbeat or count, and it is never in the registry again;
\* the broadcast of its own close goes to the remaining handles only.
C18_DetachedIsTerminal ==
    [][\A h \in Handles :
          /\ transport[h] = "closed" =>
                /\ written'[h] = written[h]
                /\ h \notin Registered(activeConnections')
                /\ transport'[h] = "closed"
          /\ ClosedIn(h) =>
                /\ written'[h] = written[h]
                /\ h \notin Registered(activeConnections')
                /\ \A g \in Handles :
                      (written'[g] # written[g]) <=> g \in Registered(activeConnections')]_vars

\* C18 witness: after the close of the first handle a heartbeat went to the
\* second one; the first one's frames are those it had when it was closed.
C18_Witness ==
    /\ transport[1] = "closed" /\ transport[2] = "open"
    /\ Len(written[1]) = 2
    /\ Len(written[2]) = 3
    /\ written[2][2].kind = "count" /\ written[2][2].event = 3
    /\ written[2][3].kind = "heartbeat"

\* C19: a heartbeat timer is set for a handle exactly when the handle is in
\* activeConnections; the close step that removes a handle clears its timer.
C19_NoLeakedTimers ==
    \A h \in Handles : timer[h] <=> h \in Registered(activeConnections)

\* C19 witness: of two connected handles one has been closed and has no
\* timer, the other is registered with its timer, and a heartbeat has fired.
C19_Witness ==
    /\ transport[1] = "open" /\ timer[1]
    /\ transport[2] = "closed" /\ ~timer[2]
    /\ Registered(activeConnections) = {1}
    /\ ticks = 1

\* C20: a heartbeat firing appends one heartbeat comment to the frames of one
\* handle with a timer and changes nothing else: the registry, the counter,
\* the timers and the frames of every other handle stay as they are.
C20_HeartbeatTouchesOneHandle ==
    [][ticks' # ticks =>
          /\ \E h \in Handles :
                /\ timer[h]
                /\ h \in Registered(activeConnections)
                /\ written' = [written EXCEPT ![h] =
                       Append(@, [kind |-> "heartbeat", ok |-> (transport[h] = "open")])]
          /\ activeConnections' = activeConnections
          /\ totalConnections' = totalConnections
          /\ Cardinality(Keys(activeConnections')) = Cardinality(Keys(activeConnections))
          /\ timer' = timer /\ listener' = listener /\ transport' = transport
          /\ events' = events /\ snapshots' = snapshots /\ health' = health
          /\ running']_vars

\* C20 witness: with two handles registered a heartbeat went to the first
\* one only.
C20_Witness ==
    /\ Registered(activeConnections) = {1, 2}
    /\ Len(written[1]) = 3 /\ written[1][3].kind = "heartbeat"
    /\ Len(written[2]) = 1
    /\ totalConnections = 2

\* A step in which the /events handler ran for y.
ConnectedNow(y) == transport[y] = "none" /\ transport'[y] # "none"

\* C24: closing a connection of visitor v and attaching a new one under the
\* same visitor id gives back the counts there were before the close, with v
\* a key once: in the handlers as they ran one after the other, and for every
\* registered handle of every reachable registry.
C24_ReconnectRoundTrip ==
    /\ \A h, g \in Handles : \A k \in 2..events :
          (/\ transport[h] = "closed"
           /\ CountFrames(written[h]) # <<>>
           /\ CountFrames(written[h])[Len(CountFrames(written[h]))].event = k - 2
           /\ ConnectedIn(k - 1) = {}
           /\ g \in ConnectedIn(k)
           /\ sessionOf[g] = sessionOf[h]) =>
              /\ snapshots[k] = snapshots[k - 2]
              /\ snapshots[k - 1][1] = snapshots[k][1] - 1
    /\ \A h \in Registered(activeConnections) :
       \A g \in Handles \ Registered(activeConnections) :
          LET v == sessionOf[h]
              de == Detach(activeConnections, totalConnections, v, h)
              at == Attach(de.ac, de.total, v, g)
          IN /\ at.total = totalConnections
             /\ Cardinality(Keys(at.ac)) = Cardinality(Keys(activeConnections))
             /\ Cardinality({i \in 1..Len(at.ac) : at.ac[i].sessionId = v}) = 1
             /\ HandlesOf(at.ac, v) =
                    (HandlesOf(activeConnections, v) \ {h}) \cup {g}
             /\ \A w \in Keys(activeConnections) \ {v} :
                    HandlesOf(at.ac, w) = HandlesOf(activeConnections, w)

\* C24 witness: of a visitor's two connections the first was closed and the
\* visitor connected again: the counts went (2,1), (1,1), (2,1).
C24_Witness ==
    /\ snapshots = <<<<1, 1>>, <<2, 1>>, <<1, 1>>, <<2, 1>>>>
    /\ sessionOf = <<1, 1, 1>>
    /\ transport[1] = "closed"
    /\ Registered(activeConnections) = {2, 3}

\* C29: the connect of handle y under visitor v adds y to v's set, which is
\* made if v was no key, adds exactly 1 to totalConnections and leaves the
\* set of every other visitor as it was; and a connect is refused in no
\* registry state: the handler is enabled for the next request with any
\* cookie.
C29_AttachFrame ==
    /\ [][\A y \in Handles : ConnectedNow(y) =>
            LET v == sessionOf'[y]
            IN /\ HandlesOf(activeConnections', v) =
                      HandlesOf(activeConnections, v) \cup {y}
               /\ y \notin Registered(activeConnections)
               /\ Keys(activeConnections') = Keys(activeConnections) \cup {v}
               /\ totalConnections' = totalConnections + 1
               /\ \A w \in Keys(activeConnections) \ {v} :
                      HandlesOf(activeConnections', w) =
                          HandlesOf(activeConnections, w)]_vars
    /\ [](\A y \in Handles :
            (transport[y] = "none" /\ \A h \in Handles : h < y => transport[h] # "none")
                => \A cookie \in Cookies : ENABLED Connect(y, cookie))

\* C29 witness: the third handle was attached to a visitor that had one
\* handle already, while another visitor holds its own handle.
C29_Witness ==
    /\ sessionOf = <<1, 2, 1>>
    /\ HandlesOf(activeConnections, 1) = {1, 3}
    /\ HandlesOf(activeConnections, 2) = {2}
    /\ totalConnections = 3
    /\ events = 3

\* C30: the close of a registered handle h of visitor v takes exactly h out
\* of v's set and exactly 1 off totalConnections, leaves the set of every
\* other visitor as it was, and removes v's key exactly when h was v's last
\* handle.
C30_DetachFrame ==
    [][\A h \in Handles :
          (ClosedIn(h) /\ h \in Registered(activeConnections)) =>
              LET v == sessionOf[h]
              IN /\ h \in HandlesOf(activeConnections, v)
                 /\ HandlesOf(activeConnections', v) =
                        HandlesOf(activeConnections, v) \ {h}
                 /\ totalConnections' = totalConnections - 1
                 /\ \A w \in Keys(activeConnections) \ {v} :
                        HandlesOf(activeConnections', w) =
                            HandlesOf(activeConnections, w)
                 /\ Keys(activeConnections') =
                        IF HandlesOf(activeConnections, v) = {h}
                        THEN Keys(activeConnections) \ {v}
                        ELSE Keys(activeConnections)]_vars

\* C30 witness: of the two handles of one visitor the first was closed and
\* the second stays, next to the handle of another visitor.
C30_Witness ==
    /\ sessionOf = <<1, 1, 2>>
    /\ transport = <<"closed", "open", "open">>
    /\ HandlesOf(activeConnections, 1) = {2}
    /\ HandlesOf(activeConnections, 2) = {3}
    /\ totalConnections = 2

\* C26: every frame written to a response is a count frame, with
\* totalConnections and uniqueVisitors and nothing else in it (the timestamp
\* is left out of the model), or a heartbeat comment; no other kind of frame
\* is written, also when sends fail and close events come twice.
C26_OnlyCountAndHeartbeat ==
    \A h \in Handles : \A i \in 1..Len(written[h]) :
        LET f == written[h][i]
        IN \/ /\ f.kind = "count"
              /\ DOMAIN f = {"kind", "totalConnections", "uniqueVisitors",
                             "event", "ok"}
              /\ f.totalConnections \in Int
              /\ f.uniqueVisitors \in Nat
           \/ /\ f.kind = "heartbeat"
              /\ DOMAIN f = {"kind", "ok"}

\* C26 witness: a handle holds a frame of a failed send, a heartbeat, and the
\* count frame of the second close of the other handle.
C26_Witness ==
    \E h, g \in Handles :
        /\ closeCalls[g] = 2
        /\ \E i \in FramesOf(h, events) : TRUE
        /\ \E i \in 1..Len(written[h]) : written[h][i].kind = "heartbeat"
        /\ SendFailed(h)

\* C22: a /health body served since the last change of the registry carries
\* the counts the registry has, and these are the counts of the count frame
\* of that last change, which every registered handle holds as its latest
\* count frame.
C22_HealthIsCurrentCounts ==
    \A i \in 1..Len(health) : health[i].at = events =>
        /\ health[i].totalConnections = totalConnections
        /\ health[i].uniqueVisitors = Cardinality(Keys(activeConnections))
        /\ \A h \in Handles : \A j \in FramesOf(h, events) :
              /\ written[h][j].totalConnections = health[i].totalConnections
              /\ written[h][j].uniqueVisitors = health[i].uniqueVisitors
        /\ \A h \in Registered(activeConnections) :
              /\ CountFrames(written[h]) # <<>>
              /\ LET f == CountFrames(written[h])[Len(CountFrames(written[h]))]
                 IN /\ f.event = events
                    /\ f.totalConnections = health[i].totalConnections
                    /\ f.uniqueVisitors = health[i].uniqueVisitors

\* C22 witness: /health answered (2,1) while the two connections of one
\* visitor were registered, after a heartbeat; each holds (2,1) as its latest
\* count frame.
C22_Witness ==
    /\ Len(health) = 1 /\ health[1].at = events
    /\ health[1].totalConnections = 2 /\ health[1].uniqueVisitors = 1
    /\ Registered(activeConnections) = {1, 2}
    /\ ticks = 1
    /\ \A h \in 1..2 : \E j \in FramesOf(h, events) :
          written[h][j].totalConnections = 2 /\ written[h][j].uniqueVisitors = 1

\* C21: a handle that is registered when one heartbeat interval ends and
\* still registered when the next one ends has had a heartbeat written to it
\* in between, whatever connects and closes happened meanwhile.
C21_HeartbeatEveryInterval ==
    [][clock' # clock =>
          \A h \in lastTick.registered \cap Registered(activeConnections) :
              Len(Heartbeats(written[h])) > lastTick.heartbeats[h]]_vars

\* C21 witness: the first handle has been registered over two intervals and
\* has two heartbeats, with the connect and the close of the second handle
\* between them.
C21_Witness ==
    /\ clock = 3
    /\ 1 \in lastTick.registered \cap Registered(activeConnections)
    /\ Len(Heartbeats(written[1])) = 2
    /\ lastTick.heartbeats[1] = 2
    /\ transport[2] = "closed"
    /\ \E i, j, k \in 1..Len(written[1]) :
          /\ i < j /\ j < k
          /\ written[1][i].kind = "heartbeat"
          /\ written[1][j].kind = "count" /\ written[1][j].event = 2
          /\ written[1][k].kind = "heartbeat"

\* C23: a connect request whose identity resolution fails attaches nothing:
\* the registry, the counter, the frames, the timers and the listeners are as
\* before, no broadcast ran, and every other connection is as it was; such a
\* request is never in the registry, and the counts stay those of the
\* connections that are attached.
C23_FailedResolutionAttachesNothing ==
    /\ [][\A y \in Handles :
            (transport[y] = "none" /\ transport'[y] = "failed") =>
                /\ activeConnections' = activeConnections
                /\ totalConnections' = totalConnections
                /\ written' = written
                /\ events' = events /\ snapshots' = snapshots
                /\ timer' = timer /\ listener' = listener
                /\ setCookie' = setCookie
                /\ running'
                /\ \A h \in Handles \ {y} : transport'[h] = transport[h]]_vars
    /\ [](/\ \A h \in Handles : transport[h] = "failed" =>
                /\ h \notin Registered(activeConnections)
                /\ ~timer[h] /\ ~listener[h]
                /\ written[h] = <<>>
          /\ totalConnections = Cardinality(Live)
          /\ Cardinality(Keys(activeConnections)) =
                Cardinality({sessionOf[h] : h \in Live}))

\* C23 witness: the second request failed between two that were attached;
\* the first handle holds the frames of the two connects and nothing else.
C23_Witness ==
    /\ transport = <<"open", "failed", "open">>
    /\ totalConnections = 2
    /\ events = 2
    /\ Len(written[1]) = 2 /\ written[2] = <<>> /\ Len(written[3]) = 1
    /\ timer = <<TRUE, FALSE, TRUE>>

\* The requests the /events handler has attached.
Attached == {h \in Handles : transport[h] \in {"open", "gone", "closed"}}

\* What the resolver did for the attached requests, when the cookie values
\* in `absent` count as carrying no cookie: a request with a cookie got its
\* cookie as id and no Set-Cookie; a request without got an id that is set as
\* its cookie; requests with the same cookie share their id and their key.
ResolvedBy(absent) ==
    /\ \A h \in Attached :
          IF reqCookie[h] \notin absent
          THEN sessionOf[h] = reqCookie[h] /\ setCookie[h] = NoCookie
          ELSE /\ sessionOf[h] \notin {NoCookie, EmptyCookie}
               /\ setCookie[h] = sessionOf[h]
               /\ \A g \in Attached : g < h =>
                     sessionOf[g] # sessionOf[h] /\ reqCookie[g] # sessionOf[h]
    /\ \A h, g \in Attached :
          (reqCookie[h] \notin absent /\ reqCookie[h] = reqCookie[g]) =>
              /\ sessionOf[h] = sessionOf[g]
              /\ {h, g} \subseteq Registered(activeConnections) =>
                    {h, g} \subseteq HandlesOf(activeConnections, sessionOf[h])

\* The connect step of a request without a cookie, in the same sense: its id
\* is none of the keys the registry holds.
MintsFresh(absent) ==
    \A y \in Handles :
        (ConnectedNow(y) /\ transport'[y] = "open" /\ reqCookie'[y] \in absent) =>
            /\ sessionOf'[y] \notin Keys(activeConnections)
            /\ HandlesOf(activeConnections', sessionOf'[y]) = {y}

----------------------------------------------------------------------------
\* The tabs that are still open, and whether each of them has its stream
\* again and the server has run the close of every connection that broke.
OpenTabs == {t \in Tabs : readyState[t] \in {"connecting", "open"}}

AllReconnected ==
    /\ running
    /\ \A t \in OpenTabs : streamOf[t] # NoStream
    /\ \A h \in Handles : transport[h] # "gone"

\* C28: a started server has totalConnections = 0 and uniqueVisitors = 0, and
\* stopping and starting it leaves the cookie of every browser as it was;
\* after a restart, once every tab that is still open has its stream again
\* with a request that carried the visitorId cookie, totalConnections is the
\* number of open tabs and uniqueVisitors the number of distinct cookies the
\* requests carried, each of them the cookie its browser holds.
C28_CountsAfterRestart ==
    /\ [][(running # running') => jar' = jar]_vars
    /\ [][(~running /\ running') =>
            /\ totalConnections' = 0
            /\ uniqueVisitors(activeConnections') = 0]_vars
    /\ []((/\ stops >= 1
           /\ AllReconnected
           /\ \A t \in OpenTabs : reqCookie[streamOf[t]] # NoCookie) =>
              /\ totalConnections = Cardinality(OpenTabs)
              /\ uniqueVisitors(activeConnections) =
                     Cardinality({reqCookie[streamOf[t]] : t \in OpenTabs})
              /\ \A t \in OpenTabs :
                     reqCookie[streamOf[t]] = jar[tabBrowser[t]])

\* Two tabs of two browsers were connected before a restart and got their
\* cookies; after it both have reconnected with them and the counts are 2
\* and 2.
C28_Witness ==
    /\ stops >= 1
    /\ AllReconnected
    /\ Cardinality(OpenTabs) = 2
    /\ \A t \in OpenTabs : reqCookie[streamOf[t]] # NoCookie
    /\ \E t, u \in OpenTabs : tabBrowser[t] # tabBrowser[u]
    /\ totalConnections = 2
    /\ uniqueVisitors(activeConnections) = 2

----------------------------------------------------------------------------
\* The stream of tab t is interrupted in this step: it had one, has none
\* now, and the page was not unmounted.
Interrupted(t) ==
    /\ streamOf[t] # NoStream
    /\ streamOf'[t] = NoStream
    /\ readyState'[t] # "closed"

\* C27: in the step that interrupts the stream of the page its status becomes
\* "Reconnecting..."; a status of "Reconnecting..." leads to "Connected" when
\* requests are answered or fail, the EventSource tries again and a stopped
\* server is started in the end; the status becomes "Connected" only in the
\* step of an open event, and while it is "Connected" the EventSource is open
\* on a stream, no error having come after that open event.
C27_StatusFollowsStream ==
    /\ [][Interrupted(1) => connectionStatus'[1] = "Reconnecting..."]_vars
    /\ (connectionStatus[1] = "Reconnecting...") ~>
           (connectionStatus[1] = "Connected")
    /\ [][(connectionStatus'[1] = "Connected" /\ connectionStatus[1] # "Connected")
             => (readyState[1] = "connecting" /\ readyState'[1] = "open")]_vars
    /\ [](connectionStatus[1] = "Connected" =>
             (readyState[1] = "open" /\ streamOf[1] # NoStream))

\* The server was stopped under the connected page and started again, and
\* the page has a stream of the new process and shows "Connected".
C27_Witness ==
    /\ stops >= 1
    /\ running
    /\ streamOf[1] # NoStream
    /\ transport[streamOf[1]] = "open"
    /\ connectionStatus[1] = "Connected"

----------------------------------------------------------------------------
\* C31: between two handlers, the latest count frame written to every handle
\* of the registry is the frame of the latest attach or detach and carries the
\* counts the registry has now, and it was delivered if the client is still
\* there; the count frames written to one handle are in the order of the
\* registry changes, each with the counts its change left.  Heartbeats and
\* close events that come twice change nothing of this.
C31_LatestFrameIsCurrent ==
    /\ \A h \in Registered(activeConnections) :
          LET cf == CountFrames(written[h])
          IN /\ cf # <<>>
             /\ cf[Len(cf)].event = events
             /\ cf[Len(cf)].totalConnections = totalConnections
             /\ cf[Len(cf)].uniqueVisitors = Cardinality(Keys(activeConnections))
             /\ transport[h] = "open" => cf[Len(cf)].ok
    /\ \A h \in Handles :
          LET cf == CountFrames(written[h])
          IN \A i \in 1..Len(cf) :
                /\ cf[i].event \in 1..events
                /\ <<cf[i].totalConnections, cf[i].uniqueVisitors>> =
                      snapshots[cf[i].event]
                /\ \A j \in 1..Len(cf) : i < j => cf[i].event < cf[j].event

\* A handle of the registry whose client is there has been written the
\* frames of three changes with three different counts, the last one a
\* detach, and a heartbeat between two of them.
C31_Witness ==
    \E h \in Registered(activeConnections) :
        /\ transport[h] = "open"
        /\ Len(CountFrames(written[h])) >= 3
        /\ \E g \in Handles : closeCalls[g] >= 1 /\ decrements[g] >= 1
        /\ \E i \in 2..(Len(written[h]) - 1) : written[h][i].kind = "heartbeat"
        /\ snapshots[events] # snapshots[events - 1]
        /\ snapshots[events] # snapshots[events - 2]

----------------------------------------------------------------------------
\* C32: in every state, and in the counts every connect and close left,
\* uniqueVisitors is at least 0 and at most totalConnections, it is 0 exactly
\* when totalConnections is 0, and totalConnections is not negative.
C32_UniqueBetweenZeroAndTotal ==
    /\ totalConnections >= 0
    /\ Cardinality(Keys(activeConnections)) >= 0
    /\ Cardinality(Keys(activeConnections)) <= totalConnections
    /\ (Cardinality(Keys(activeConnections)) = 0) <=> (totalConnections = 0)
    /\ \A k \in 1..Len(snapshots) :
          /\ 0 <= snapshots[k][2]
          /\ snapshots[k][2] <= snapshots[k][1]
          /\ (snapshots[k][2] = 0) <=> (snapshots[k][1] = 0)

\* The only connection was closed, which left 0 and 0, and two connections of
\* one visitor came after it: 2 connections, 1 visitor.
C32_Witness ==
    /\ \E h \in Handles : transport[h] = "closed" /\ decrements[h] = 1
    /\ \E k \in 1..Len(snapshots) : snapshots[k] = <<0, 0>>
    /\ totalConnections = 2
    /\ Cardinality(Keys(activeConnections)) = 1

----------------------------------------------------------------------------
\* The entries of the registry whose set holds h, and how often a set holds h.
EntriesWith(h) ==
    {i \in 1..Len(activeConnections) : h \in Range(activeConnections[i].responses)}

Occurrences(s, h) == Cardinality({j \in 1..Len(s) : s[j] = h})

\* C33: a handle is in the set of at most one visitor id and is there once;
\* a handle whose connection is not closed is in exactly one set, that of the
\* id resolved at its connect, and a handle not connected or closed is in
\* none; no visitor id has two entries.
C33_HandleInOneSet ==
    /\ \A h \in Handles :
          /\ Cardinality(EntriesWith(h)) <= 1
          /\ \A i \in EntriesWith(h) :
                /\ activeConnections[i].sessionId = sessionOf[h]
                /\ Occurrences(activeConnections[i].responses, h) = 1
          /\ h \in Live <=> Cardinality(EntriesWith(h)) = 1
    /\ \A i, j \in 1..Len(activeConnections) :
          activeConnections[i].sessionId = activeConnections[j].sessionId => i = j

\* Three connections of two visitors: the set of one visitor holds two
\* handles, the set of the other the third.
C33_Witness ==
    /\ Len(activeConnections) = 2
    /\ \A h \in Handles : Cardinality(EntriesWith(h)) = 1
    /\ \E i \in 1..2 : Len(activeConnections[i].responses) = 2
    /\ \E h, g \in Handles : h # g /\ sessionOf[h] # sessionOf[g] /\ reqCookie[g] # NoCookie

----------------------------------------------------------------------------
\* C34: a run of the close listener of a handle whose visitor id has no entry
\* in activeConnections leaves the map and totalConnections as they were; the
\* timer of the handle is cleared after it, and the run is one broadcast:
\* every handle of the registry is written one count frame with the unchanged
\* counts and no other frame is written.
C34_CloseWithoutEntry ==
    [][\A h \in Handles :
          (ClosedIn(h) /\ ~has(activeConnections, sessionOf[h])) =>
              /\ activeConnections' = activeConnections
              /\ totalConnections' = totalConnections
              /\ ~timer'[h]
              /\ events' = events + 1
              /\ snapshots'[events'] =
                    <<totalConnections, Cardinality(Keys(activeConnections))>>
              /\ \A g \in Handles :
                    IF g \in Registered(activeConnections)
                    THEN /\ Len(written'[g]) = Len(written[g]) + 1
                         /\ SubSeq(written'[g], 1, Len(written[g])) = written[g]
                         /\ LET f == written'[g][Len(written'[g])]
                            IN /\ f.kind = "count"
                               /\ f.event = events'
                               /\ f.totalConnections = totalConnections
                               /\ f.uniqueVisitors =
                                     Cardinality(Keys(activeConnections))
                    ELSE written'[g] = written[g]]_vars

\* The last connection of a visitor was closed and its close listener has
\* run a second time, finding no entry: the handle of another visitor has
\* the frame of that run, with the counts of the run before it.
C34_Witness ==
    \E h, g \in Handles :
        /\ closeCalls[h] = 2
        /\ decrements[h] = 1
        /\ ~has(activeConnections, sessionOf[h])
        /\ g \in Registered(activeConnections)
        /\ FramesOf(g, events) # {}
        /\ events >= 2
        /\ snapshots[events] = snapshots[events - 1]
        /\ snapshots[events] = <<1, 1>>

----------------------------------------------------------------------------
\* A step that served a GET /health request.
HealthServed == Len(health') = Len(health) + 1

\* C35: a GET /health request leaves activeConnections and totalConnections
\* as they were, sets and clears no timer, installs no close listener, mints
\* no id and sets no visitorId cookie, and writes no frame to any stream; it
\* is no event of the registry.
C35_HealthIsNoConnection ==
    [][HealthServed =>
          /\ activeConnections' = activeConnections
          /\ totalConnections' = totalConnections
          /\ timer' = timer
          /\ listener' = listener
          /\ minted' = minted
          /\ setCookie' = setCookie
          /\ sessionOf' = sessionOf
          /\ written' = written
          /\ transport' = transport
          /\ events' = events
          /\ snapshots' = snapshots]_vars

\* Two connections are open, the second with the Set-Cookie of its response,
\* and a /health request served after the second connect reported 2
\* connections, which is what the counter still holds.
C35_Witness ==
    /\ health # <<>>
    /\ health[Len(health)].at = events
    /\ health[Len(health)].totalConnections = 2
    /\ totalConnections = 2
    /\ \E h \in Handles : timer[h] /\ setCookie[h] # NoCookie

----------------------------------------------------------------------------
\* The message events dispatched to the page of tab 1 whose data is JSON,
\* and those whose data is JSON other than null.
ValidJSON == {i \in 1..Len(received[1]) : received[1][i].json # "invalid"}

NotNull == {i \in ValidJSON : received[1][i].json # "null"}

Latest(S) == CHOOSE i \in S : \A j \in S : j <= i

\* The counts a JSON value carries: null carries none.
CountsOf(data) ==
    IF data.json = "object"
    THEN <<Field(data, "totalConnections"), Field(data, "uniqueVisitors")>>
    ELSE <<Undefined, Undefined>>

\* What the page shows when the messages in S are those that count.
ShowsLatestOf(S) ==
    IF S = {} THEN visitorCount[1] = <<0, 0>> /\ lastUpdate[1] = NoUpdate
    ELSE LET data == received[1][Latest(S)]
         IN /\ visitorCount[1] = CountsOf(data)
            /\ lastUpdate[1] = [shown |-> TRUE, time |-> Field(data, "timestamp")]

\* A step that dispatched a message event whose data is of the given kinds.
MessageOf(kinds) ==
    /\ Len(received'[1]) = Len(received[1]) + 1
    /\ received'[1][Len(received'[1])].json \in kinds

\* A step that leaves the counts and the last update of the page alone.
DisplayKept ==
    visitorCount'[1] = visitorCount[1] /\ lastUpdate'[1] = lastUpdate[1]

====
